---- MODULE Spec2Model ----
(***************************************************************************)
(* Model of move-binary-format/src/access.rs: the ModuleAccess trait over  *)
(* a CompiledModule.  The module is immutable; every operation is a pure   *)
(* read.  A behaviour is: a module (and a build configuration) is fixed by *)
(* Init, then one operation of the trait is applied to inputs drawn from   *)
(* bounded sets and its outcome is recorded in `result`.                   *)
(*                                                                         *)
(* Indices are 0-based as in the source; pools are TLA+ sequences, so the  *)
(* record at index i of pool p is p[i + 1].                                *)
(*                                                                         *)
(* An outcome is [kind, value]: kind "Ok" (the returned value), "Err" (a   *)
(* PartialVMError returned to the caller) or "Panic" (an index out of      *)
(* bounds or a failed debug_assert!, which unwinds the call).              *)
(***************************************************************************)
EXTENDS Integers, Sequences, FiniteSets, TLC

VARIABLES module, debug_assertions, pc, op, ty, constraints, idx, name, result

vars == <<module, debug_assertions, pc, op, ty, constraints, idx, name, result>>

-----------------------------------------------------------------------------
(* Bounds of the explored inputs.                                          *)

MaxConstraints == 1
MaxTypeParams == 2
MaxTypeArgs == 2
MaxModuleHandles == 3
MaxStructDefs == 3

-----------------------------------------------------------------------------
(* AbilitySet and its named constants.                                     *)

Ability == {"COPY", "DROP", "STORE", "KEY"}

EMPTY == {}

PRIMITIVES == {"COPY", "DROP", "STORE"}

REFERENCES == {"COPY", "DROP"}

SIGNER == {"DROP"}

VECTOR == {"COPY", "DROP", "STORE"}

ALL == Ability

-----------------------------------------------------------------------------
(* Outcomes.                                                               *)

Ok(v) == [kind |-> "Ok", value |-> v]

Err == [kind |-> "Err", value |-> {}]

Panic == [kind |-> "Panic", value |-> {}]

IsOk(r) == r.kind = "Ok"

-----------------------------------------------------------------------------
(* SignatureToken.                                                         *)

PrimitiveTags == {"Bool", "U8", "U16", "U32", "U64", "U128", "U256", "Address"}

Bool == [tag |-> "Bool"]

U8 == [tag |-> "U8"]

Signer == [tag |-> "Signer"]

Reference(t) == [tag |-> "Reference", inner |-> t]

MutableReference(t) == [tag |-> "MutableReference", inner |-> t]

TypeParameter(i) == [tag |-> "TypeParameter", idx |-> i]

Vector(t) == [tag |-> "Vector", inner |-> t]

Struct(h) == [tag |-> "Struct", idx |-> h]

StructInstantiation(h, args) == [tag |-> "StructInstantiation", idx |-> h, type_args |-> args]

-----------------------------------------------------------------------------
(* Sequences of length lo..hi over S.                                      *)

SeqsOf(S, lo, hi) == UNION {[1..n -> S] : n \in lo..hi}

-----------------------------------------------------------------------------
(* Bulk accessors: each pool as an ordered read-only view.                 *)

module_handles == module.module_handles

struct_handles == module.struct_handles

function_handles == module.function_handles

field_handles == module.field_handles

struct_instantiations == module.struct_def_instantiations

function_instantiations == module.function_instantiations

field_instantiations == module.field_instantiations

signatures == module.signatures

constant_pool == module.constant_pool

identifiers == module.identifiers

address_identifiers == module.address_identifiers

struct_defs == module.struct_defs

function_defs == module.function_defs

friend_decls == module.friend_decls

self_handle_idx == module.self_module_handle_idx

-----------------------------------------------------------------------------
(* Indexed lookups.  pool[i] panics when i is not below the pool's length; *)
(* a debug_assert! panics only when debug assertions are compiled in.      *)

Index(pool, i) == IF i < Len(pool) THEN Ok(pool[i + 1]) ELSE Panic

DebugAssert(cond, r) == IF debug_assertions /\ ~cond THEN Panic ELSE r

identifier_at(i) == Index(identifiers, i)

address_identifier_at(i) == Index(address_identifiers, i)

signature_at(i) == Index(signatures, i)

constant_at(i) == Index(constant_pool, i)

struct_def_at(i) == Index(struct_defs, i)

struct_instantiation_at(i) == Index(struct_instantiations, i)

function_instantiation_at(i) == Index(function_instantiations, i)

field_instantiation_at(i) == Index(field_instantiations, i)

(* Mutant: the assertions of module_handle_at check each index against    *)
(* the other pool.                                                         *)
module_handle_at_SwappedPools(i) ==
    LET r == Index(module_handles, i)
    IN  IF ~IsOk(r) THEN r
        ELSE DebugAssert(r.value.address < Len(identifiers)
                         /\ r.value.name < Len(address_identifiers), r)

module_handle_at(i) ==
    LET r == Index(module_handles, i)
    IN  IF ~IsOk(r) THEN r
        ELSE DebugAssert(r.value.address < Len(address_identifiers)
                         /\ r.value.name < Len(identifiers), r)

struct_handle_at(i) ==
    LET r == Index(struct_handles, i)
    IN  IF ~IsOk(r) THEN r
        ELSE DebugAssert(r.value.module < Len(module_handles), r)

function_handle_at(i) ==
    LET r == Index(function_handles, i)
    IN  IF ~IsOk(r) THEN r
        ELSE DebugAssert(r.value.parameters < Len(signatures)
                         /\ r.value.return_ < Len(signatures), r)

field_handle_at(i) ==
    LET r == Index(field_handles, i)
    IN  IF ~IsOk(r) THEN r
        ELSE DebugAssert(r.value.owner < Len(struct_defs), r)

function_def_at(i) ==
    LET r == Index(function_defs, i)
    IN  IF ~IsOk(r) THEN r
        ELSE DebugAssert(r.value.function < Len(function_handles)
                         /\ (r.value.code.some => r.value.code.locals < Len(signatures)), r)

-----------------------------------------------------------------------------
(* Identity of the module.                                                 *)

self_handle ==
    LET r == module_handle_at(self_handle_idx)
    IN  IF ~IsOk(r) THEN r
        ELSE DebugAssert(r.value.address < Len(address_identifiers)
                         /\ r.value.name < Len(identifiers), r)

module_name ==
    LET h == self_handle
    IN  IF ~IsOk(h) THEN h ELSE identifier_at(h.value.name)

address ==
    LET h == self_handle
    IN  IF ~IsOk(h) THEN h ELSE address_identifier_at(h.value.address)

struct_name(i) ==
    LET d == struct_def_at(i)
    IN  IF ~IsOk(d) THEN d
        ELSE LET h == struct_handle_at(d.value.struct_handle)
             IN  IF ~IsOk(h) THEN h ELSE identifier_at(h.value.name)

ModuleId(a, n) == [address |-> a, name |-> n]

module_id_for_handle(h) ==
    LET a == address_identifier_at(h.address)
        n == identifier_at(h.name)
    IN  IF IsOk(a) /\ IsOk(n) THEN Ok(ModuleId(a.value, n.value)) ELSE Panic

-----------------------------------------------------------------------------
(* Dependency and friend enumeration.                                      *)

(* iter().map(module_id_for_handle).collect(): the ids in order, or the    *)
(* panic of the first handle that does not resolve.                        *)
MapModuleIds(handles) ==
    IF \E k \in 1..Len(handles) : ~IsOk(module_id_for_handle(handles[k]))
    THEN Panic
    ELSE Ok([k \in 1..Len(handles) |-> module_id_for_handle(handles[k]).value])

(* Mutant: a handle is dropped when it resolves to the module's own id,    *)
(* not when it equals the self-handle.                                     *)
immediate_dependencies_ById ==
    LET sh == self_handle
    IN  IF ~IsOk(sh) THEN sh
        ELSE MapModuleIds(SelectSeq(module_handles,
                LAMBDA handle : module_id_for_handle(handle) # module_id_for_handle(sh.value)))

immediate_dependencies ==
    LET sh == self_handle
    IN  IF ~IsOk(sh) THEN sh
        ELSE MapModuleIds(SelectSeq(module_handles, LAMBDA handle : handle # sh.value))

immediate_friends == MapModuleIds(friend_decls)

-----------------------------------------------------------------------------
(* Definition search.  Option<&StructDefinition> is Some(position) of the  *)
(* borrowed definition in struct_defs, or None.                            *)

Some(p) == [some |-> TRUE, at |-> p]

None == [some |-> FALSE, at |-> 0]

(* The closure of find_struct_def: d.struct_handle == idx.                 *)
HandleIndexMatches(p, i) == Ok(struct_defs[p + 1].struct_handle = i)

(* Mutant: the definition's handle index is used as the identifier index. *)
ResolvedNameMatches_SkipsHandle(p, n) ==
    LET id == identifier_at(struct_defs[p + 1].struct_handle)
    IN  IF ~IsOk(id) THEN id ELSE Ok(n = id.value)

(* The closure of find_struct_def_by_name: resolves the definition's       *)
(* handle and its identifier, then compares with name.                     *)
ResolvedNameMatches(p, n) ==
    LET handle == struct_handle_at(struct_defs[p + 1].struct_handle)
    IN  IF ~IsOk(handle) THEN handle
        ELSE LET id == identifier_at(handle.value.name)
             IN  IF ~IsOk(id) THEN id ELSE Ok(n = id.value)

RECURSIVE FindStructDefFrom(_, _)
(* Iterator::find over struct_defs from 0-based position p.                *)
FindStructDefFrom(p, i) ==
    IF p >= Len(struct_defs) THEN Ok(None)
    ELSE LET t == HandleIndexMatches(p, i)
         IN  IF ~IsOk(t) THEN t
             ELSE IF t.value THEN Ok(Some(p))
             ELSE FindStructDefFrom(p + 1, i)

RECURSIVE FindStructDefByNameFrom(_, _)
FindStructDefByNameFrom(p, n) ==
    IF p >= Len(struct_defs) THEN Ok(None)
    ELSE LET t == ResolvedNameMatches(p, n)
         IN  IF ~IsOk(t) THEN t
             ELSE IF t.value THEN Ok(Some(p))
             ELSE FindStructDefByNameFrom(p + 1, n)

find_struct_def(i) == FindStructDefFrom(0, i)

find_struct_def_by_name(n) == FindStructDefByNameFrom(0, n)

-----------------------------------------------------------------------------
(* AbilitySet::polymorphic_abilities.                                      *)

polymorphic_abilities(declared_abilities, declared_phantom_parameters, type_arguments) ==
    IF Len(declared_phantom_parameters) # Len(type_arguments) THEN Err
    ELSE Ok({a \in declared_abilities :
                \A k \in 1..Len(type_arguments) :
                    ~declared_phantom_parameters[k] => a \in type_arguments[k]})

-----------------------------------------------------------------------------
(* ModuleAccess::abilities.                                                *)

RECURSIVE abilities(_, _)
RECURSIVE CollectAbilities(_, _, _)

(* type_args.iter().map(|arg| self.abilities(arg, constraints))            *)
(*     .collect::<PartialVMResult<Vec<_>>>()?                              *)
(* evaluates the arguments left to right from position k and stops at the  *)
(* first one that does not succeed.                                        *)
CollectAbilities(type_args, cs, k) ==
    IF k > Len(type_args) THEN Ok(<<>>)
    ELSE LET r == abilities(type_args[k], cs)
         IN  IF ~IsOk(r) THEN r
             ELSE LET rest == CollectAbilities(type_args, cs, k + 1)
                  IN  IF ~IsOk(rest) THEN rest ELSE Ok(<<r.value>> \o rest.value)

TypeParameterArm(i, cs) == Index(cs, i)

(* Mutant: the reference arm computes the referent's abilities first and   *)
(* propagates its failure.                                                 *)
ReferenceArm_ExaminesReferent(inner, cs) ==
    LET r == abilities(inner, cs)
    IN  IF ~IsOk(r) THEN r ELSE Ok(REFERENCES)

ReferenceArm(inner, cs) == Ok(REFERENCES)

(* Mutant: the element position of a vector is declared phantom.           *)
VectorArm_PhantomElement(inner, cs) ==
    LET r == abilities(inner, cs)
    IN  IF ~IsOk(r) THEN r
        ELSE polymorphic_abilities(VECTOR, <<TRUE>>, <<r.value>>)

VectorArm(inner, cs) ==
    LET r == abilities(inner, cs)
    IN  IF ~IsOk(r) THEN r
        ELSE polymorphic_abilities(VECTOR, <<FALSE>>, <<r.value>>)

(* Mutant: the struct arm resolves the first handle of the pool, not the   *)
(* indexed one.                                                            *)
StructArm_FirstHandle(i) ==
    LET sh == struct_handle_at(0)
    IN  IF ~IsOk(sh) THEN sh ELSE Ok(sh.value.abilities)

StructArm(i) ==
    LET sh == struct_handle_at(i)
    IN  IF ~IsOk(sh) THEN sh ELSE Ok(sh.value.abilities)

(* Mutant: the declared abilities are returned without composing them     *)
(* with the arguments' abilities.                                          *)
StructInstantiationArm_DeclaredOnly(i, type_args, cs) ==
    LET sh == struct_handle_at(i)
    IN  IF ~IsOk(sh) THEN sh
        ELSE LET type_arguments == CollectAbilities(type_args, cs, 1)
             IN  IF ~IsOk(type_arguments) THEN type_arguments
                 ELSE IF Len(sh.value.type_parameters) # Len(type_arguments.value) THEN Err
                 ELSE Ok(sh.value.abilities)

(* Mutant: the handle's phantom flags are dropped, every parameter counts  *)
(* as non-phantom.                                                         *)
StructInstantiationArm_NoPhantom(i, type_args, cs) ==
    LET sh == struct_handle_at(i)
    IN  IF ~IsOk(sh) THEN sh
        ELSE LET type_arguments == CollectAbilities(type_args, cs, 1)
             IN  IF ~IsOk(type_arguments) THEN type_arguments
                 ELSE polymorphic_abilities(
                        sh.value.abilities,
                        [k \in 1..Len(sh.value.type_parameters) |-> FALSE],
                        type_arguments.value)

StructInstantiationArm(i, type_args, cs) ==
    LET sh == struct_handle_at(i)
    IN  IF ~IsOk(sh) THEN sh
        ELSE LET declared_abilities == sh.value.abilities
                 type_arguments == CollectAbilities(type_args, cs, 1)
             IN  IF ~IsOk(type_arguments) THEN type_arguments
                 ELSE polymorphic_abilities(
                        declared_abilities,
                        [k \in 1..Len(sh.value.type_parameters) |->
                            sh.value.type_parameters[k].is_phantom],
                        type_arguments.value)

abilities(t, cs) ==
    CASE t.tag \in PrimitiveTags -> Ok(PRIMITIVES)
      [] t.tag \in {"Reference", "MutableReference"} -> ReferenceArm(t.inner, cs)
      [] t.tag = "Signer" -> Ok(SIGNER)
      [] t.tag = "TypeParameter" -> TypeParameterArm(t.idx, cs)
      [] t.tag = "Vector" -> VectorArm(t.inner, cs)
      [] t.tag = "Struct" -> StructArm(t.idx)
      [] t.tag = "StructInstantiation" -> StructInstantiationArm(t.idx, t.type_args, cs)

-----------------------------------------------------------------------------
(* Modules and inputs explored.                                            *)

NoCode == [some |-> FALSE, locals |-> 0]

Code(l) == [some |-> TRUE, locals |-> l]

ModuleHandle(a, n) == [address |-> a, name |-> n]

StructHandle(m, n, abs, tps) == [module |-> m, name |-> n, abilities |-> abs, type_parameters |-> tps]

StructTypeParameter(cs, ph) == [constraints |-> cs, is_phantom |-> ph]

(* A small well-formed module; the families below vary parts of it.        *)
BaseModule ==
    [self_module_handle_idx |-> 0,
     module_handles |-> <<ModuleHandle(0, 0)>>,
     struct_handles |-> <<StructHandle(0, 1, EMPTY, <<>>)>>,
     function_handles |-> <<[parameters |-> 0, return_ |-> 0]>>,
     field_handles |-> <<[owner |-> 0]>>,
     struct_def_instantiations |-> <<"struct_inst_0">>,
     function_instantiations |-> <<"function_inst_0">>,
     field_instantiations |-> <<"field_inst_0">>,
     signatures |-> <<"sig_0">>,
     identifiers |-> <<"a", "b">>,
     address_identifiers |-> <<"0x1">>,
     constant_pool |-> <<"const_0">>,
     struct_defs |-> <<[struct_handle |-> 0]>>,
     function_defs |-> <<[function |-> 0, code |-> NoCode]>>,
     friend_decls |-> <<>>]

AbilityChoices ==
    {EMPTY, {"COPY"}, {"KEY"}, SIGNER, REFERENCES, {"STORE", "KEY"}, PRIMITIVES, ALL}

(* Struct handles of every arity up to MaxTypeParams and every phantom     *)
(* pattern.                                                                *)
GenericStructHandles ==
    {StructHandle(0, 0, abs, tps) :
        abs \in AbilityChoices,
        tps \in SeqsOf({StructTypeParameter(EMPTY, ph) : ph \in BOOLEAN}, 0, MaxTypeParams)}

(* Handle 0 varies; handle 1 is a non-generic struct without abilities.    *)
AbilityModules ==
    {[BaseModule EXCEPT !.struct_handles = <<h, StructHandle(0, 1, EMPTY, <<>>)>>] :
        h \in GenericStructHandles}

ConstraintArrays == SeqsOf({EMPTY, SIGNER, PRIMITIVES}, 0, MaxConstraints)

(* Type expressions, by nesting depth.  TypeParameter(MaxConstraints) is   *)
(* out of range of every constraints array, Struct(2) of the handle pool.  *)
Tokens0 ==
    {[tag |-> t] : t \in PrimitiveTags \cup {"Signer"}}
    \cup {TypeParameter(i) : i \in 0..MaxConstraints}
    \cup {Struct(h) : h \in 0..2}

ArgTokens0 == {Signer, TypeParameter(0), TypeParameter(MaxConstraints)}

Instantiations ==
    {StructInstantiation(h, a) : h \in 0..1, a \in SeqsOf(ArgTokens0, 0, MaxTypeArgs)}

Tokens1 ==
    {Reference(t) : t \in Tokens0} \cup {MutableReference(t) : t \in Tokens0}
    \cup {Vector(t) : t \in Tokens0}
    \cup Instantiations \cup {StructInstantiation(2, <<>>)}

ArgTokens1 ==
    {U8, Struct(1),
     Vector(TypeParameter(0)), Vector(TypeParameter(MaxConstraints)),
     Reference(TypeParameter(MaxConstraints)),
     StructInstantiation(1, <<>>), StructInstantiation(1, <<U8>>),
     StructInstantiation(0, <<Signer>>),
     StructInstantiation(0, <<TypeParameter(MaxConstraints)>>)}

NestedInstantiations ==
    {StructInstantiation(h, <<a>>) : h \in 0..1, a \in ArgTokens1}
    \cup {StructInstantiation(0, <<a, b>>) : a \in ArgTokens1, b \in ArgTokens0}
    \cup {StructInstantiation(0, <<b, a>>) : a \in ArgTokens1, b \in ArgTokens0}

Tokens2 ==
    {Reference(t) : t \in Instantiations}
    \cup {MutableReference(t) : t \in Instantiations}
    \cup {Vector(t) : t \in Instantiations}
    \cup {Vector(Vector(t)) : t \in ArgTokens0}
    \cup NestedInstantiations

Tokens == Tokens0 \cup Tokens1 \cup Tokens2

NoResult == [kind |-> "None", value |-> {}]

-----------------------------------------------------------------------------
(* The ability computation engine applied to one type expression.          *)

Init ==
    /\ module \in AbilityModules
    /\ debug_assertions \in BOOLEAN
    /\ pc = "ready"
    /\ op = "none"
    /\ ty = Bool
    /\ constraints = <<>>
    /\ idx = 0
    /\ name = "a"
    /\ result = NoResult

CallAbilities ==
    /\ pc = "ready"
    /\ \E t \in Tokens, cs \in ConstraintArrays :
        /\ ty' = t
        /\ constraints' = cs
        /\ result' = abilities(t, cs)
    /\ op' = "abilities"
    /\ pc' = "done"
    /\ UNCHANGED <<module, debug_assertions, idx, name>>

Next == CallAbilities

Spec == Init /\ [][Next]_vars

-----------------------------------------------------------------------------
(* Properties of the ability computation engine (checked under Spec).      *)

AbilitiesCalled == pc = "done" /\ op = "abilities"

HandleInRange(t) == t.idx < Len(struct_handles)

HandleOf(t) == struct_handles[t.idx + 1]

IsInstantiation(t) == t.tag = "StructInstantiation" /\ HandleInRange(t)

ArityMatches(t) == Len(t.type_args) = Len(HandleOf(t).type_parameters)

ArgumentsSucceed(t, cs) == \A k \in 1..Len(t.type_args) : IsOk(abilities(t.type_args[k], cs))

NonPhantomPositions(t) ==
    {k \in 1..Len(HandleOf(t).type_parameters) : ~HandleOf(t).type_parameters[k].is_phantom}

PhantomPositions(t) ==
    {k \in 1..Len(HandleOf(t).type_parameters) : HandleOf(t).type_parameters[k].is_phantom}

(* A type expression that is itself inconsistent with its context: a type  *)
(* parameter without a constraint, or an instantiation of the wrong arity. *)
Inconsistent(t, cs) ==
    \/ t.tag = "TypeParameter" /\ t.idx >= Len(cs)
    \/ IsInstantiation(t) /\ ~ArityMatches(t)

(* C1: for StructInstantiation(H, args) with as many arguments as H has    *)
(* type parameters, all of whose abilities are computed successfully, the  *)
(* call succeeds and an ability is in the result iff it is declared on H   *)
(* and is in the computed set of every argument at a non-phantom position; *)
(* without phantom parameters the result is the intersection of H's        *)
(* declared set with the sets of all arguments.                            *)
C1_InstantiationAbilities ==
    (AbilitiesCalled /\ IsInstantiation(ty) /\ ArityMatches(ty)
        /\ ArgumentsSucceed(ty, constraints))
    => /\ IsOk(result)
       /\ \A a \in Ability :
            a \in result.value <=>
                /\ a \in HandleOf(ty).abilities
                /\ \A k \in NonPhantomPositions(ty) :
                        a \in abilities(ty.type_args[k], constraints).value
       /\ PhantomPositions(ty) = {} =>
            result.value =
                {a \in HandleOf(ty).abilities :
                    \A k \in 1..Len(ty.type_args) :
                        a \in abilities(ty.type_args[k], constraints).value}

(* C1 witness: a two-parameter handle with one phantom and one non-phantom *)
(* parameter whose instantiation keeps some declared abilities and loses   *)
(* others.                                                                 *)
C1_Witness ==
    /\ AbilitiesCalled /\ IsInstantiation(ty) /\ ArityMatches(ty)
    /\ ArgumentsSucceed(ty, constraints)
    /\ PhantomPositions(ty) # {} /\ NonPhantomPositions(ty) # {}
    /\ IsOk(result)
    /\ result.value # {}
    /\ result.value # HandleOf(ty).abilities

(* The inputs against which a phantom argument is varied.                  *)
AlternativeArguments == ArgTokens0 \cup ArgTokens1 \cup {Reference(U8)}

(* C2: replacing the argument at a phantom position by any other argument  *)
(* whose abilities are computed successfully leaves the outcome of the     *)
(* instantiation unchanged; declared {COPY, DROP, STORE, KEY} with a       *)
(* single phantom parameter and an argument without abilities yields       *)
(* {COPY, DROP, STORE, KEY}.                                               *)
C2_PhantomArgumentIrrelevant ==
    (AbilitiesCalled /\ IsInstantiation(ty) /\ ArityMatches(ty))
    => /\ \A k \in PhantomPositions(ty) :
            IsOk(abilities(ty.type_args[k], constraints)) =>
                \A alt \in AlternativeArguments :
                    IsOk(abilities(alt, constraints)) =>
                        abilities(StructInstantiation(ty.idx, [ty.type_args EXCEPT ![k] = alt]),
                                  constraints) = result
       /\ (/\ HandleOf(ty).abilities = ALL
           /\ Len(ty.type_args) = 1
           /\ PhantomPositions(ty) = {1}
           /\ abilities(ty.type_args[1], constraints) = Ok(EMPTY))
          => result = Ok(ALL)

(* C2 witness: declared {COPY, DROP, STORE, KEY}, one phantom parameter,   *)
(* an argument whose ability set is empty.                                 *)
C2_Witness ==
    /\ AbilitiesCalled /\ IsInstantiation(ty) /\ ArityMatches(ty)
    /\ HandleOf(ty).abilities = ALL
    /\ Len(ty.type_args) = 1
    /\ PhantomPositions(ty) = {1}
    /\ abilities(ty.type_args[1], constraints) = Ok(EMPTY)
    /\ result = Ok(ALL)

(* C3: an instantiation whose argument count differs from the handle's     *)
(* parameter count always returns the validation error, whatever its       *)
(* arguments are.                                                          *)
C3_ArityMismatchIsError ==
    (AbilitiesCalled /\ IsInstantiation(ty) /\ ~ArityMatches(ty))
    => result.kind = "Err"

(* C4: TypeParameter(i) returns the i-th constraint when i is in range and *)
(* a validation error, not an abort, when it is not.                       *)
C4_TypeParameterChecked ==
    (AbilitiesCalled /\ ty.tag = "TypeParameter")
    => IF ty.idx < Len(constraints)
       THEN result = Ok(constraints[ty.idx + 1])
       ELSE result.kind = "Err"

(* C6: a successful abilities(Vector(T), c) is a subset of VECTOR and is   *)
(* the intersection of VECTOR with abilities(T, c); abilities(Vector(U8),  *)
(* []) is VECTOR.                                                          *)
C6_VectorAbilities ==
    /\ (AbilitiesCalled /\ ty.tag = "Vector" /\ IsOk(result))
       => /\ result.value \subseteq VECTOR
          /\ IsOk(abilities(ty.inner, constraints))
          /\ result.value = VECTOR \cap abilities(ty.inner, constraints).value
    /\ (AbilitiesCalled /\ ty = Vector(U8) /\ constraints = <<>>)
       => result = Ok(VECTOR)

(* C6 witness: a vector whose element lacks some of VECTOR's abilities.    *)
C6_Witness ==
    /\ AbilitiesCalled /\ ty.tag = "Vector" /\ IsOk(result)
    /\ result.value # VECTOR
    /\ result.value # {}

(* C9: abilities(Struct(H), c) for a non-generic handle H of the module    *)
(* succeeds with exactly H's declared abilities, for every c.              *)
C9_StructAbilities ==
    (AbilitiesCalled /\ ty.tag = "Struct" /\ HandleInRange(ty)
        /\ HandleOf(ty).type_parameters = <<>>)
    => result = Ok(HandleOf(ty).abilities)

(* C9 witness: a non-generic handle with declared abilities, queried under *)
(* a non-empty constraints array that differs from them.                   *)
C9_Witness ==
    /\ AbilitiesCalled /\ ty.tag = "Struct" /\ HandleInRange(ty)
    /\ HandleOf(ty).type_parameters = <<>>
    /\ HandleOf(ty).abilities = {"STORE", "KEY"}
    /\ constraints = <<SIGNER>>
    /\ result = Ok({"STORE", "KEY"})

(* C10: abilities(Reference(T), c) and abilities(MutableReference(T), c)   *)
(* return REFERENCES whatever T is, also when T is inconsistent or its     *)
(* abilities cannot be computed; the same T as a Vector element or as a    *)
(* type argument of an instantiation makes the enclosing call fail.        *)
C10_ReferenceHidesInconsistency ==
    /\ (AbilitiesCalled /\ ty.tag \in {"Reference", "MutableReference"})
       => result = Ok(REFERENCES)
    /\ (AbilitiesCalled /\ ty.tag = "Vector"
            /\ (Inconsistent(ty.inner, constraints)
                \/ ~IsOk(abilities(ty.inner, constraints))))
       => ~IsOk(result)
    /\ (AbilitiesCalled /\ IsInstantiation(ty)
            /\ \E k \in 1..Len(ty.type_args) :
                \/ Inconsistent(ty.type_args[k], constraints)
                \/ ~IsOk(abilities(ty.type_args[k], constraints)))
       => ~IsOk(result)

(* C10 witness: a reference to an instantiation of the wrong arity, or to  *)
(* one with a type parameter outside the constraints, is given REFERENCES. *)
C10_Witness ==
    /\ AbilitiesCalled /\ ty.tag \in {"Reference", "MutableReference"}
    /\ IsInstantiation(ty.inner)
    /\ \/ ~ArityMatches(ty.inner)
       \/ \E k \in 1..Len(ty.inner.type_args) :
            Inconsistent(ty.inner.type_args[k], constraints)
    /\ ~IsOk(abilities(ty.inner, constraints))
    /\ result = Ok(REFERENCES)

-----------------------------------------------------------------------------
(* The accessor layer: modules explored.  An index field ranges up to the  *)
(* length of the pool it indexes, the one value that is out of range.      *)

Names == {"a", "b"}

AddressPools == {<<"0x1">>, <<"0x1", "0x1">>}

IdentifierPools == {<<"a", "b">>, <<"a", "a">>}

ModuleHandleChoices == {ModuleHandle(a, n) : a \in 0..1, n \in 0..2}

(* Module handles, the self index and the address pool vary.               *)
ModuleSideModules ==
    {[BaseModule EXCEPT !.address_identifiers = as,
                        !.module_handles = mhs,
                        !.self_module_handle_idx = self] :
        as \in AddressPools,
        mhs \in SeqsOf(ModuleHandleChoices, 1, MaxModuleHandles),
        self \in 0..MaxModuleHandles}

(* Struct handles, struct definitions and the identifier pool vary.        *)
StructSideModules ==
    {[BaseModule EXCEPT !.identifiers = ids,
                        !.struct_handles = shs,
                        !.struct_defs = sds] :
        ids \in IdentifierPools,
        shs \in SeqsOf({StructHandle(0, n, EMPTY, <<>>) : n \in 0..2}, 1, 2),
        sds \in SeqsOf({[struct_handle |-> h] : h \in 0..2}, 0, MaxStructDefs)}

(* Function handles and function definitions vary.                         *)
FunctionSideModules ==
    {[BaseModule EXCEPT !.function_handles = fhs,
                        !.function_defs = fds] :
        fhs \in SeqsOf({[parameters |-> ps, return_ |-> r] : ps \in 0..1, r \in 0..1}, 1, 1),
        fds \in SeqsOf({[function |-> f, code |-> c] :
                            f \in 0..1, c \in {NoCode, Code(0), Code(1)}}, 1, 2)}

(* Friend declarations, the field handle's owner and the struct handle's   *)
(* module vary.                                                            *)
FriendSideModules ==
    {[BaseModule EXCEPT !.friend_decls = fr,
                        !.field_handles = <<[owner |-> o]>>,
                        !.struct_handles = <<StructHandle(m, 1, EMPTY, <<>>)>>] :
        fr \in SeqsOf(ModuleHandleChoices, 0, 2),
        o \in 0..1,
        m \in 0..1}

AccessModules ==
    ModuleSideModules \cup StructSideModules \cup FunctionSideModules \cup FriendSideModules

(* The module's stored indices are all within the pools they index.        *)
WellFormed ==
    /\ self_handle_idx < Len(module_handles)
    /\ \A k \in 1..Len(module_handles) :
        /\ module_handles[k].address < Len(address_identifiers)
        /\ module_handles[k].name < Len(identifiers)
    /\ \A k \in 1..Len(friend_decls) :
        /\ friend_decls[k].address < Len(address_identifiers)
        /\ friend_decls[k].name < Len(identifiers)
    /\ \A k \in 1..Len(struct_handles) :
        /\ struct_handles[k].module < Len(module_handles)
        /\ struct_handles[k].name < Len(identifiers)
    /\ \A k \in 1..Len(function_handles) :
        /\ function_handles[k].parameters < Len(signatures)
        /\ function_handles[k].return_ < Len(signatures)
    /\ \A k \in 1..Len(field_handles) : field_handles[k].owner < Len(struct_defs)
    /\ \A k \in 1..Len(struct_defs) : struct_defs[k].struct_handle < Len(struct_handles)
    /\ \A k \in 1..Len(function_defs) :
        /\ function_defs[k].function < Len(function_handles)
        /\ function_defs[k].code.some => function_defs[k].code.locals < Len(signatures)

-----------------------------------------------------------------------------
(* One accessor operation applied to the module.                           *)

InitAccess ==
    /\ module \in AccessModules
    /\ debug_assertions \in BOOLEAN
    /\ pc = "ready"
    /\ op = "none"
    /\ ty = Bool
    /\ constraints = <<>>
    /\ idx = 0
    /\ name = "a"
    /\ result = NoResult

Apply(o, i, n, r) ==
    /\ pc = "ready"
    /\ pc' = "done"
    /\ op' = o
    /\ idx' = i
    /\ name' = n
    /\ result' = r
    /\ UNCHANGED <<module, debug_assertions, ty, constraints>>

CallSelfHandle == Apply("self_handle", idx, name, self_handle)

CallName == Apply("name", idx, name, module_name)

CallAddress == Apply("address", idx, name, address)

CallStructName ==
    \E i \in 0..Len(struct_defs) : Apply("struct_name", i, name, struct_name(i))

CallModuleHandleAt ==
    \E i \in 0..Len(module_handles) : Apply("module_handle_at", i, name, module_handle_at(i))

CallStructHandleAt ==
    \E i \in 0..Len(struct_handles) : Apply("struct_handle_at", i, name, struct_handle_at(i))

CallFunctionHandleAt ==
    \E i \in 0..Len(function_handles) :
        Apply("function_handle_at", i, name, function_handle_at(i))

CallFieldHandleAt ==
    \E i \in 0..Len(field_handles) : Apply("field_handle_at", i, name, field_handle_at(i))

CallStructInstantiationAt ==
    \E i \in 0..Len(struct_instantiations) :
        Apply("struct_instantiation_at", i, name, struct_instantiation_at(i))

CallFunctionInstantiationAt ==
    \E i \in 0..Len(function_instantiations) :
        Apply("function_instantiation_at", i, name, function_instantiation_at(i))

CallFieldInstantiationAt ==
    \E i \in 0..Len(field_instantiations) :
        Apply("field_instantiation_at", i, name, field_instantiation_at(i))

CallSignatureAt ==
    \E i \in 0..Len(signatures) : Apply("signature_at", i, name, signature_at(i))

CallIdentifierAt ==
    \E i \in 0..Len(identifiers) : Apply("identifier_at", i, name, identifier_at(i))

CallAddressIdentifierAt ==
    \E i \in 0..Len(address_identifiers) :
        Apply("address_identifier_at", i, name, address_identifier_at(i))

CallConstantAt ==
    \E i \in 0..Len(constant_pool) : Apply("constant_at", i, name, constant_at(i))

CallStructDefAt ==
    \E i \in 0..Len(struct_defs) : Apply("struct_def_at", i, name, struct_def_at(i))

CallFunctionDefAt ==
    \E i \in 0..Len(function_defs) : Apply("function_def_at", i, name, function_def_at(i))

CallImmediateDependencies ==
    Apply("immediate_dependencies", idx, name, immediate_dependencies)

CallImmediateFriends == Apply("immediate_friends", idx, name, immediate_friends)

CallFindStructDef ==
    \E i \in 0..Len(struct_handles) : Apply("find_struct_def", i, name, find_struct_def(i))

CallFindStructDefByName ==
    \E n \in Names : Apply("find_struct_def_by_name", idx, n, find_struct_def_by_name(n))

NextAccess ==
    \/ CallSelfHandle
    \/ CallName
    \/ CallAddress
    \/ CallStructName
    \/ CallModuleHandleAt
    \/ CallStructHandleAt
    \/ CallFunctionHandleAt
    \/ CallFieldHandleAt
    \/ CallStructInstantiationAt
    \/ CallFunctionInstantiationAt
    \/ CallFieldInstantiationAt
    \/ CallSignatureAt
    \/ CallIdentifierAt
    \/ CallAddressIdentifierAt
    \/ CallConstantAt
    \/ CallStructDefAt
    \/ CallFunctionDefAt
    \/ CallImmediateDependencies
    \/ CallImmediateFriends
    \/ CallFindStructDef
    \/ CallFindStructDefByName

SpecAccess == InitAccess /\ [][NextAccess]_vars

-----------------------------------------------------------------------------
(* Properties of the accessor layer (checked under SpecAccess).            *)

Called(o) == pc = "done" /\ op = o

(* Positions of the module-handle pool whose entry differs from the        *)
(* self-handle, and the j-th of them in pool order.                        *)
KeptPositions ==
    {k \in 1..Len(module_handles) : module_handles[k] # module_handles[self_handle_idx + 1]}

NthKept(j) ==
    CHOOSE k \in KeptPositions : Cardinality({k2 \in KeptPositions : k2 <= k}) = j

ResolvedId(h) == ModuleId(address_identifiers[h.address + 1], identifiers[h.name + 1])

(* C5: for a well-formed module immediate_dependencies() is the sequence   *)
(* of the resolved ids of the module handles that differ from the          *)
(* self-handle, in pool order, nothing else removed and nothing merged.    *)
C5_ImmediateDependencies ==
    (Called("immediate_dependencies") /\ WellFormed)
    => /\ IsOk(result)
       /\ Len(result.value) = Cardinality(KeptPositions)
       /\ \A j \in 1..Len(result.value) :
            result.value[j] = ResolvedId(module_handles[NthKept(j)])

(* C5 witness: two different handles, neither the self-handle, resolve to  *)
(* the same module id and both ids are returned.                           *)
C5_Witness ==
    /\ Called("immediate_dependencies") /\ WellFormed
    /\ IsOk(result)
    /\ Len(result.value) = 2
    /\ Len(module_handles) = 3
    /\ module_handles[NthKept(1)] # module_handles[NthKept(2)]
    /\ result.value[1] = result.value[2]

IndexedOps ==
    {"struct_name", "module_handle_at", "struct_handle_at", "function_handle_at",
     "field_handle_at", "struct_instantiation_at", "function_instantiation_at",
     "field_instantiation_at", "signature_at", "identifier_at", "address_identifier_at",
     "constant_at", "struct_def_at", "function_def_at"}

IndexedPool(o) ==
    CASE o \in {"struct_name", "struct_def_at"} -> struct_defs
      [] o = "module_handle_at" -> module_handles
      [] o = "struct_handle_at" -> struct_handles
      [] o = "function_handle_at" -> function_handles
      [] o = "field_handle_at" -> field_handles
      [] o = "struct_instantiation_at" -> struct_instantiations
      [] o = "function_instantiation_at" -> function_instantiations
      [] o = "field_instantiation_at" -> field_instantiations
      [] o = "signature_at" -> signatures
      [] o = "identifier_at" -> identifiers
      [] o = "address_identifier_at" -> address_identifiers
      [] o = "constant_at" -> constant_pool
      [] o = "function_def_at" -> function_defs

(* C7: on a well-formed module every lookup with an in-range index and     *)
(* every derived query completes: no failed assertion, no access out of    *)
(* bounds, with or without debug assertions.                               *)
C7_NoPanicOnWellFormed ==
    (pc = "done" /\ WellFormed /\ (op \in IndexedOps => idx < Len(IndexedPool(op))))
    => result.kind = "Ok"

(* C7 witness: with debug assertions compiled in, the name of the last of  *)
(* three struct definitions of a well-formed module is resolved.           *)
C7_Witness ==
    /\ Called("struct_name") /\ WellFormed /\ debug_assertions
    /\ Len(struct_defs) = 3 /\ idx = 2
    /\ result.kind = "Ok"

Matching(i) == {p \in 0..(Len(struct_defs) - 1) : struct_defs[p + 1].struct_handle = i}

(* C8: find_struct_def(idx) returns the definition at the lowest position  *)
(* whose handle index is idx; find_struct_def_by_name(name) the one at the *)
(* lowest position p whose struct_name(p) is name; each returns none iff   *)
(* no definition matches.                                                  *)
C8_FindFirstMatch ==
    /\ Called("find_struct_def")
       => /\ IsOk(result)
          /\ result.value.some <=> Matching(idx) # {}
          /\ result.value.some =>
                /\ result.value.at \in Matching(idx)
                /\ \A q \in Matching(idx) : result.value.at <= q
    /\ (Called("find_struct_def_by_name") /\ WellFormed) => IsOk(result)
    /\ (Called("find_struct_def_by_name") /\ IsOk(result))
       => /\ result.value.some <=>
                \E q \in 0..(Len(struct_defs) - 1) : struct_name(q) = Ok(name)
          /\ result.value.some =>
                /\ result.value.at < Len(struct_defs)
                /\ struct_name(result.value.at) = Ok(name)
                /\ \A q \in 0..(result.value.at - 1) :
                        IsOk(struct_name(q)) /\ struct_name(q).value # name

(* C8 witness: the name is carried by the second and the third definition  *)
(* but not by the first, and the second is returned.                       *)
C8_Witness ==
    /\ Called("find_struct_def_by_name") /\ WellFormed
    /\ Len(struct_defs) = 3
    /\ struct_name(0) # Ok(name)
    /\ struct_name(2) = Ok(name)
    /\ result = Ok(Some(1))

====
